---- MODULE Spec2Model ----
(***************************************************************************)
(* Verification model of the hedging simulator (src/simulator/env.py).     *)
(*                                                                         *)
(* Python floats are modelled as exact rationals <<num, den>> in lowest    *)
(* terms with den > 0; NaN is <<0, 0>>; Python's None is NoneF (floats),   *)
(* NoneInt (ints) and "None" (the tri-state done flag).  Array indices are *)
(* 0-based as in the source; At(s, i) reads s[i].                          *)
(***************************************************************************)
EXTENDS Integers, Sequences, FiniteSets, TLC

VARIABLES
    self,     \* the HedgingEnv instance: its fields, as a record
    out,      \* what the last call returned or raised
    call,     \* the last call made on the instance: its arguments, the runtime
              \* fields it found, and whether it repeats the remembered rollout
    trace,    \* one entry per executed (non no-op) step since the last reset
    peer,     \* a second instance on the same panel, other txn_cost_bps
    ptrace,   \* the peer's trace
    roll,     \* the dictionary the last call returned, when it was a rollout
    first,    \* a remembered earlier rollout call: its arguments and result
    ctor,     \* the constructor call: the caller's table, the arguments, the outcome
    sel,      \* a vol-surface selector call: the quote table, the target, the result
    gbm       \* the path generator: the arguments and the arrays of two calls

vars == <<self, out, call, trace, peer, ptrace, roll, first, ctor, sel, gbm>>

----------------------------------------------------------------------------
(* Bounds of the model *)

MaxRows == 4      \* longest panel (rows of the caller's DataFrame)
MaxAct == 2       \* actions range over -MaxAct .. MaxAct
MaxWindow == 2    \* windows range over 1 .. MaxWindow
MaxSteps == 2     \* max_steps arguments range over None, 0 .. MaxSteps
MaxQuotes == 2    \* longest table of option quotes
MaxGbmSteps == 2  \* n_steps of a generated path ranges over 1 .. MaxGbmSteps
MaxPaths == 2     \* n_paths ranges over 1 .. MaxPaths

----------------------------------------------------------------------------
(* Floats as exact rationals *)

NaN == <<0, 0>>
PosInf == <<1, 0>>
NegInf == <<-1, 0>>
IsFinite(x) == ~ (x[2] = 0)
NoneF == <<>>
NoneInt == -1

Abs(n) == IF n < 0 THEN -n ELSE n

RECURSIVE GCD(_, _)
GCD(a, b) == IF b = 0 THEN a ELSE GCD(b, a % b)

Rat(n, d) ==
    LET s == IF d < 0 THEN -1 ELSE 1
        g == GCD(Abs(n), Abs(d))
    IN  <<(s * n) \div g, (s * d) \div g>>

F(n) == <<n, 1>>
IsNaN(x) == x = NaN
RAdd(x, y) == Rat(x[1] * y[2] + y[1] * x[2], x[2] * y[2])
RSub(x, y) == Rat(x[1] * y[2] - y[1] * x[2], x[2] * y[2])
RMul(x, y) == Rat(x[1] * y[1], x[2] * y[2])
RAbs(x) == <<Abs(x[1]), x[2]>>
RLe(x, y) == x[1] * y[2] <= y[1] * x[2]
RLt(x, y) == x[1] * y[2] < y[1] * x[2]
RNeg(x) == <<-x[1], x[2]>>
RMin(x, y) == IF RLe(x, y) THEN x ELSE y
RMax(x, y) == IF RLe(x, y) THEN y ELSE x

Min(a, b) == IF a <= b THEN a ELSE b
Max(a, b) == IF a <= b THEN b ELSE a

\* 0-based indexing of an array
At(s, i) == s[i + 1]

\* s[lo:hi], each element tagged with the index it was read from
PySlice(s, lo, hi) ==
    LET n == Len(s)
        l == IF lo < 0 THEN Max(lo + n, 0) ELSE Min(lo, n)
        h == IF hi < 0 THEN Max(hi + n, 0) ELSE Min(hi, n)
    IN  [k \in 1 .. Max(h - l, 0) |-> [idx |-> l + k - 1, val |-> s[l + k]]]

\* np.clip(x, lo, hi)
NoClip(x, lo, hi) == x
Clip(x, lo, hi) == RMin(RMax(x, lo), hi)

\* np.nan_to_num(w, nan=0.0, posinf=0.0, neginf=0.0), elementwise
NanToNumIdentity(w) == w
NanToNum(w) ==
    [k \in 1 .. Len(w) |-> [idx |-> w[k].idx,
                            val |-> IF IsFinite(w[k].val) THEN w[k].val ELSE F(0)]]

\* truth value of the done flag (None is falsy)
Truthy(d) == d = "True"
PyBool(b) == IF b THEN "True" ELSE "False"

----------------------------------------------------------------------------
(* Inputs *)

\* forward returns that occur in the panels: -200 %, +50 %, undefined
RetVals == {F(-2), Rat(1, 2), NaN}

RECURSIVE SeqsOf(_, _)
SeqsOf(S, n) ==
    IF n = 0 THEN {<<>>}
    ELSE {Append(s, x) : s \in SeqsOf(S, n - 1), x \in S}

NaNCount(rs) == Cardinality({i \in 1 .. Len(rs) : IsNaN(rs[i])})

\* A panel: the feature column is the lagged return (undefined on the first row)
PanelOf(rs) ==
    [i \in 1 .. Len(rs) |-> [x |-> IF i = 1 THEN NaN ELSE rs[i - 1], ret_fwd |-> rs[i]]]

Panels ==
    {PanelOf(rs) : rs \in {s \in SeqsOf(RetVals, MaxRows - 1) \cup SeqsOf(RetVals, MaxRows) :
                              NaNCount(s) <= 1}}

\* the panels the rollouts run on: a fixed alternating return series of the
\* longest length, and a shorter one followed by a row whose forward return is
\* undefined
Series(n) == [i \in 1 .. n |-> IF i % 2 = 1 THEN Rat(1, 2) ELSE F(-2)]
\* a panel whose first row has a defined feature, so that a policy reading the
\* window acts from the first step on
FirstFeature(df) == [df EXCEPT ![1].x = Rat(1, 2)]
RollPanels ==
    {FirstFeature(PanelOf(Series(MaxRows))), PanelOf(Append(Series(MaxRows - 2), NaN))}

\* the tables the constructor is called on: the feature column x runs through
\* NaN, +inf, -inf, 1/2 by row, the forward return is 1/2 or undefined
FeatCycle(i) ==
    IF i % 4 = 1 THEN NaN ELSE IF i % 4 = 2 THEN PosInf ELSE IF i % 4 = 3 THEN NegInf
    ELSE Rat(1, 2)
FeatPanel(rs) ==
    [i \in 1 .. Len(rs) |-> [index |-> i, x |-> FeatCycle(i), ret_fwd |-> rs[i]]]
Reverse(rows) == [i \in 1 .. Len(rows) |-> rows[Len(rows) + 1 - i]]
NewPanels ==
    LET sorted == UNION {{FeatPanel(rs) : rs \in SeqsOf({Rat(1, 2), NaN}, n)} :
                            n \in 0 .. MaxRows - 1}
    IN  sorted \cup {Reverse(df) : df \in sorted}
ColumnSets == {{}, {"x"}, {"ret_fwd"}, {"x", "ret_fwd"}, {"x", "ret_fwd", "z"}}
FeatureLists == {<<"x">>, <<"y">>, <<"x", "y">>}

\* a table's rows as its columns show them: an absent column has no values
Project(rows, columns) ==
    [i \in 1 .. Len(rows) |->
        [index |-> rows[i].index,
         x |-> IF "x" \in columns THEN rows[i].x ELSE NaN,
         ret_fwd |-> IF "ret_fwd" \in columns THEN rows[i].ret_fwd ELSE NaN]]

Windows == 1 .. MaxWindow
BpsVals == {0, 2500, 5000}
PosLimits == {F(1)}
Actions == {F(n) : n \in -MaxAct .. MaxAct}

----------------------------------------------------------------------------
(* HedgingEnv *)

\* if self.window >= self.T: raise ValueError
WindowTooLargeStrict(window, T) == window > T
WindowTooLarge(window, T) == window >= T

\* x = self.df[self.features]; x = x.loc[ok]
FeatureRowsUnfiltered(df, ok) == df
FeatureRows(df, ok) == ok

\* HedgingEnv.__init__: the arrays are built from the rows with a defined ret_fwd
New(df, window, txn_cost_bps, pos_limit) ==
    LET ok == SelectSeq(df, LAMBDA row : ~IsNaN(row.ret_fwd))
        xs == FeatureRows(df, ok)
        X == [i \in 1 .. Len(xs) |-> xs[i].x]
        R == [i \in 1 .. Len(ok) |-> ok[i].ret_fwd]
        T == Len(R)
    IN  [exc |-> IF WindowTooLarge(window, T) THEN "ValueError" ELSE "none",
         self |-> [X |-> X, R |-> R, T |-> T, window |-> window,
                   txn_cost_bps |-> txn_cost_bps, pos_limit |-> pos_limit,
                   t |-> NoneInt, nav |-> NoneF, pos |-> NoneF, done |-> "None"]]

\* no instance: the constructor has not run, or it raised
NoEnv == [X |-> <<>>, R |-> <<>>, T |-> 0, window |-> NoneInt, txn_cost_bps |-> 0,
          pos_limit |-> NoneF, t |-> NoneInt, nav |-> NoneF, pos |-> NoneF, done |-> "None"]

\* req_cols = set(self.features + ["ret_fwd"])
Range(f) == {f[i] : i \in DOMAIN f}
RequiredColsFeaturesOnly(features) == Range(features)
RequiredCols(features) == Range(features) \cup {"ret_fwd"}

\* self.df.sort_index(): the rows in the order of their (distinct) index labels
RECURSIVE SortIndex(_)
SortIndex(rows) ==
    IF rows = <<>> THEN <<>>
    ELSE LET k == CHOOSE k \in 1 .. Len(rows) :
                      \A j \in 1 .. Len(rows) : rows[k].index <= rows[j].index
         IN  <<rows[k]>> \o SortIndex(SelectSeq(rows, LAMBDA row : ~ (row.index = rows[k].index)))

\* HedgingEnv.__init__ on a table with named columns: the column check, the
\* sort, then the arrays and the window check
Construct(columns, rows, features, window, txn_cost_bps, pos_limit) ==
    LET missing == {c \in RequiredCols(features) : c \notin columns}
        made == New(SortIndex(rows), window, txn_cost_bps, pos_limit)
    IN  IF ~ (missing = {}) THEN [exc |-> "KeyError", missing |-> missing, self |-> NoEnv]
        ELSE IF ~ (made.exc = "none") THEN [exc |-> made.exc, missing |-> {}, self |-> NoEnv]
        ELSE [exc |-> "none", missing |-> {}, self |-> made.self]

\* what a later change of the caller's table does to the instance: nothing,
\* self.df is a copy and X, R are arrays of their own (astype copies)
AfterCallerMutationAliased(s, rows) ==
    LET n == New(SortIndex(rows), s.window, s.txn_cost_bps, s.pos_limit).self
    IN  [s EXCEPT !.X = n.X, !.R = n.R, !.T = n.T]
AfterCallerMutation(s, rows) == s

\* HedgingEnv._obs (scaler is None)
ObsSliceShifted(s) == PySlice(s.X, s.t - s.window + 1, s.t + 1)
ObsSlice(s) == PySlice(s.X, s.t - s.window, s.t)

Obs(s) == NanToNum(ObsSlice(s))

NoInfo == [ret |-> NoneF, pnl |-> NoneF, pos |-> NoneF, nav |-> NoneF, cost |-> NoneF]
NoOut == [exc |-> "none", obs |-> <<>>, reward |-> NoneF, done |-> "None", info |-> NoInfo]

\* HedgingEnv.reset
ResetKeepsNav(s) ==
    LET s1 == [s EXCEPT !.t = s.window, !.pos = F(0), !.done = "False",
                        !.nav = IF s.nav = NoneF THEN F(1) ELSE s.nav]
    IN  [self |-> s1, out |-> [NoOut EXCEPT !.obs = Obs(s1)]]
Reset(s) ==
    LET s1 == [s EXCEPT !.t = s.window, !.nav = F(1), !.pos = F(0), !.done = "False"]
    IN  [self |-> s1, out |-> [NoOut EXCEPT !.obs = Obs(s1)]]

\* reset(t0): reset takes no argument besides self, so the call itself raises
\* TypeError before the body runs
ResetAt(s, t0) ==
    IF t0 = NoneInt THEN Reset(s)
    ELSE [self |-> s, out |-> [NoOut EXCEPT !.exc = "TypeError"]]

\* reward_fn = pnl_only
RewardFn(pnl, info) == pnl

\* step on a finished episode: same observation, zero reward, nothing changes
StepDoneResetsPos(s) ==
    LET s1 == [s EXCEPT !.pos = F(0)]
    IN  [self |-> s1,
         out |-> [exc |-> "none", obs |-> Obs(s1), reward |-> F(0), done |-> "True",
                  info |-> [ret |-> F(0), pnl |-> F(0), pos |-> s1.pos, nav |-> s1.nav,
                            cost |-> F(0)]]]
StepDone(s) ==
    [self |-> s,
     out |-> [exc |-> "none", obs |-> Obs(s), reward |-> F(0), done |-> "True",
              info |-> [ret |-> F(0), pnl |-> F(0), pos |-> s.pos, nav |-> s.nav,
                        cost |-> F(0)]]]

\* cost = (txn_cost_bps * 1e-4) * abs(dpos)
StepCostOnPosition(s, a) == RMul(Rat(s.txn_cost_bps, 10000), RAbs(a))
StepCost(s, a) == RMul(Rat(s.txn_cost_bps, 10000), RAbs(RSub(a, s.pos)))

\* pnl = a * r - cost
StepPnlCostAdded(a, r, cost) == RAdd(RMul(a, r), cost)
StepPnl(a, r, cost) == RSub(RMul(a, r), cost)

\* self.nav *= (1.0 + pnl)
StepNavAdditive(nav, pnl) == RAdd(nav, pnl)
StepNav(nav, pnl) == RMul(nav, RAdd(F(1), pnl))

\* done = t >= T - 1, with t already advanced
StepIsDone(s, t) == t >= s.T - 1

\* step on a running episode
StepLive(s, action) ==
    LET a == Clip(action, RNeg(s.pos_limit), s.pos_limit)
        r == At(s.R, s.t)
        cost == StepCost(s, a)
        pnl == StepPnl(a, r, cost)
        nav == StepNav(s.nav, pnl)
        t == s.t + 1
        s1 == [s EXCEPT !.nav = nav, !.pos = a, !.t = t, !.done = PyBool(StepIsDone(s, t))]
        info == [ret |-> r, pnl |-> pnl, pos |-> s1.pos, nav |-> s1.nav, cost |-> cost]
    IN  [self |-> s1,
         out |-> [exc |-> "none", obs |-> Obs(s1), reward |-> RewardFn(pnl, info),
                  done |-> s1.done, info |-> info]]

\* step before any reset: t is None, so float(self.R[None]) raises TypeError
StepUninit(s) == [self |-> s, out |-> [NoOut EXCEPT !.exc = "TypeError"]]

\* HedgingEnv.step
Step(s, action) ==
    IF Truthy(s.done) THEN StepDone(s)
    ELSE IF s.t = NoneInt THEN StepUninit(s)
    ELSE StepLive(s, action)

\* the trace entry of a step that was executed on state s
Executed(s, res) == ~Truthy(s.done) /\ res.out.exc = "none"
Entry(s, res) ==
    [t |-> s.t, pos |-> res.self.pos, nav |-> res.self.nav, ret |-> res.out.info.ret,
     pnl |-> res.out.info.pnl, cost |-> res.out.info.cost]

\* the runtime fields of an instance, as a call finds them
Runtime(s) == [t |-> s.t, pos |-> s.pos, nav |-> s.nav, done |-> s.done]

NoCall == [op |-> "new", action |-> NoneF, policy |-> "none", max_steps |-> NoneInt,
           repeat |-> FALSE, t0 |-> NoneInt,
           pre |-> [t |-> NoneInt, pos |-> NoneF, nav |-> NoneF, done |-> "None"]]
NoRoll == [rewards |-> <<>>, nav |-> <<>>, positions |-> <<>>, rets |-> <<>>,
           pnls |-> <<>>, costs |-> <<>>, steps |-> NoneInt]
NoFirst == [policy |-> "none", max_steps |-> NoneInt, result |-> NoRoll]

\* the constructor call and the selector call, before they are made
NoCtor == [columns |-> {}, rows |-> <<>>, features |-> <<>>, window |-> NoneInt,
           called |-> FALSE, exc |-> "none", missing |-> {}, made |-> FALSE,
           orig |-> <<>>, mutated |-> FALSE]
NoSel == [df |-> <<>>, target |-> NoneInt, called |-> FALSE, rows |-> <<>>, tier |-> NoneInt,
          wcalled |-> FALSE, wexc |-> "none", wings |-> <<>>,
          fcalled |-> FALSE, fexc |-> "none", feats |-> <<>>, iv30 |-> <<>>, iv91 |-> <<>>]

\* the path generator before any call
NoGbm == [s0 |-> NoneF, mu |-> NoneF, sigma |-> NoneF, dt |-> NoneInt, n_steps |-> NoneInt,
          n_paths |-> NoneInt, seed |-> NoneInt, calls |-> 0, rng |-> NoneInt,
          paths1 |-> <<>>, paths2 |-> <<>>]

----------------------------------------------------------------------------
(* rollout *)

\* the policies the rollouts are driven by: functions of the observation window
Policies == {"no_hedge", "follow"}

PolicyAct(p, obs) ==
    IF p = "no_hedge" THEN F(0)
    ELSE LET x == obs[Len(obs)].val
         IN  IF RLt(F(0), x) THEN F(1) ELSE IF RLt(x, F(0)) THEN F(-1) ELSE F(0)

MaxStepsArgs == {NoneInt} \cup (0 .. MaxSteps)

\* limit = max_steps or (self.T - self.window - 1): None and 0 are both falsy
RolloutLimitOneMore(s, max_steps) ==
    IF max_steps = NoneInt \/ max_steps = 0 THEN s.T - s.window ELSE max_steps
RolloutLimit(s, max_steps) ==
    IF max_steps = NoneInt \/ max_steps = 0 THEN s.T - s.window - 1 ELSE max_steps

\* obs = self.reset()
RolloutStartNoReset(s) == [self |-> s, out |-> [NoOut EXCEPT !.obs = Obs(s)]]
RolloutStart(s) == Reset(s)

\* while not self.done and steps < limit: ...
RECURSIVE RolloutLoop(_, _, _, _, _, _)
RolloutLoop(s, obs, acc, tr, limit, policy) ==
    IF ~Truthy(s.done) /\ acc.steps < limit
    THEN LET a == PolicyAct(policy, obs)
             res == Step(s, a)
             info == res.out.info
         IN  RolloutLoop(res.self, res.out.obs,
                         [rewards |-> Append(acc.rewards, res.out.reward),
                          nav |-> Append(acc.nav, info.nav),
                          positions |-> Append(acc.positions, info.pos),
                          rets |-> Append(acc.rets, info.ret),
                          pnls |-> Append(acc.pnls, info.pnl),
                          costs |-> Append(acc.costs, info.cost),
                          steps |-> acc.steps + 1],
                         IF Executed(s, res) THEN Append(tr, Entry(s, res)) ELSE tr,
                         limit, policy)
    ELSE [self |-> s, result |-> acc, trace |-> tr]

\* HedgingEnv.rollout
Rollout(s, policy, max_steps) ==
    LET r0 == RolloutStart(s)
        acc0 == [NoRoll EXCEPT !.nav = <<r0.self.nav>>, !.positions = <<r0.self.pos>>,
                               !.steps = 0]
    IN  RolloutLoop(r0.self, r0.out.obs, acc0, <<>>, RolloutLimit(r0.self, max_steps), policy)

----------------------------------------------------------------------------
(* One instance, driven by reset and step *)

Init ==
    /\ \E df \in Panels, w \in Windows, c \in BpsVals, pl \in PosLimits :
          /\ New(df, w, c, pl).exc = "none"
          /\ self = New(df, w, c, pl).self
    /\ out = NoOut
    /\ call = NoCall
    /\ trace = <<>>
    /\ peer = self
    /\ ptrace = <<>>
    /\ roll = NoRoll
    /\ first = NoFirst
    /\ ctor = NoCtor
    /\ sel = NoSel
    /\ gbm = NoGbm

DoReset ==
    /\ self' = Reset(self).self
    /\ out' = Reset(self).out
    /\ call' = [NoCall EXCEPT !.op = "reset", !.pre = Runtime(self)]
    /\ trace' = <<>>
    /\ roll' = NoRoll
    /\ UNCHANGED <<peer, ptrace, first, ctor, sel, gbm>>

DoStep ==
    \E action \in Actions :
        LET res == Step(self, action) IN
        /\ self' = res.self
        /\ out' = res.out
        /\ call' = [NoCall EXCEPT !.op = "step", !.action = action, !.pre = Runtime(self)]
        /\ trace' = IF Executed(self, res) THEN Append(trace, Entry(self, res)) ELSE trace
        /\ roll' = NoRoll
        /\ UNCHANGED <<peer, ptrace, first, ctor, sel, gbm>>

\* reset called with a start index
StartArgs == 0 .. MaxRows

DoResetAt ==
    \E t0 \in StartArgs :
        LET res == ResetAt(self, t0) IN
        /\ self' = res.self
        /\ out' = res.out
        /\ call' = [NoCall EXCEPT !.op = "reset", !.t0 = t0, !.pre = Runtime(self)]
        /\ trace' = IF res.out.exc = "none" THEN <<>> ELSE trace
        /\ roll' = NoRoll
        /\ UNCHANGED <<peer, ptrace, first, ctor, sel, gbm>>

Next == DoReset \/ DoStep \/ DoResetAt

Spec == Init /\ [][Next]_vars

----------------------------------------------------------------------------
(* One instance, driven by reset, step and rollout *)

DoRollout ==
    \E policy \in Policies, max_steps \in MaxStepsArgs,
       remember \in IF first = NoFirst THEN BOOLEAN ELSE {FALSE} :
        LET res == Rollout(self, policy, max_steps)
        IN
        /\ self' = res.self
        /\ roll' = res.result
        /\ out' = NoOut
        /\ call' = [NoCall EXCEPT !.op = "rollout", !.policy = policy,
                                  !.max_steps = max_steps, !.pre = Runtime(self),
                                  !.repeat = (first.policy = policy
                                              /\ first.max_steps = max_steps)]
        /\ trace' = res.trace
        /\ first' = IF first = NoFirst /\ remember
                    THEN [policy |-> policy, max_steps |-> max_steps, result |-> res.result]
                    ELSE first
        /\ UNCHANGED <<peer, ptrace, ctor, sel, gbm>>

InitRollout ==
    /\ \E df \in RollPanels, w \in Windows, pl \in PosLimits :
          /\ New(df, w, 2500, pl).exc = "none"
          /\ self = New(df, w, 2500, pl).self
    /\ out = NoOut
    /\ call = NoCall
    /\ trace = <<>>
    /\ peer = self
    /\ ptrace = <<>>
    /\ roll = NoRoll
    /\ first = NoFirst
    /\ ctor = NoCtor
    /\ sel = NoSel
    /\ gbm = NoGbm

NextRollout == DoReset \/ DoStep \/ DoRollout

SpecRollout == InitRollout /\ [][NextRollout]_vars

----------------------------------------------------------------------------
(* Two instances on one panel that differ in txn_cost_bps only, driven by  *)
(* the same calls                                                          *)

InitPair ==
    /\ \E df \in Panels, w \in Windows, c1 \in BpsVals, c2 \in BpsVals, pl \in PosLimits :
          /\ c1 < c2
          /\ New(df, w, c1, pl).exc = "none"
          /\ self = New(df, w, c1, pl).self
          /\ peer = New(df, w, c2, pl).self
    /\ out = NoOut
    /\ call = NoCall
    /\ trace = <<>>
    /\ ptrace = <<>>
    /\ roll = NoRoll
    /\ first = NoFirst
    /\ ctor = NoCtor
    /\ sel = NoSel
    /\ gbm = NoGbm

PairReset ==
    /\ self' = Reset(self).self
    /\ peer' = Reset(peer).self
    /\ out' = Reset(self).out
    /\ call' = [NoCall EXCEPT !.op = "reset", !.pre = Runtime(self)]
    /\ trace' = <<>>
    /\ ptrace' = <<>>
    /\ UNCHANGED <<roll, first, ctor, sel, gbm>>

PairStep ==
    \E action \in Actions :
        LET res == Step(self, action)
            pres == Step(peer, action)
        IN
        /\ self' = res.self
        /\ peer' = pres.self
        /\ out' = res.out
        /\ call' = [NoCall EXCEPT !.op = "step", !.action = action, !.pre = Runtime(self)]
        /\ trace' = IF Executed(self, res) THEN Append(trace, Entry(self, res)) ELSE trace
        /\ ptrace' = IF Executed(peer, pres) THEN Append(ptrace, Entry(peer, pres)) ELSE ptrace
        /\ UNCHANGED <<roll, first, ctor, sel, gbm>>

NextPair == PairReset \/ PairStep

SpecPair == InitPair /\ [][NextPair]_vars

----------------------------------------------------------------------------
(* The constructor, then reset and step on the instance it made, while the *)
(* caller goes on changing its own table                                   *)

InitNew ==
    /\ \E df \in NewPanels, cols \in ColumnSets, f \in FeatureLists, w \in Windows :
          ctor = [NoCtor EXCEPT !.columns = cols, !.rows = Project(df, cols),
                                !.features = f, !.window = w]
    /\ self = NoEnv
    /\ out = NoOut
    /\ call = NoCall
    /\ trace = <<>>
    /\ peer = NoEnv
    /\ ptrace = <<>>
    /\ roll = NoRoll
    /\ first = NoFirst
    /\ sel = NoSel
    /\ gbm = NoGbm

DoConstruct ==
    /\ ~ctor.called
    /\ LET res == Construct(ctor.columns, ctor.rows, ctor.features, ctor.window,
                            2500, F(1))
       IN  /\ self' = res.self
           /\ ctor' = [ctor EXCEPT !.called = TRUE, !.exc = res.exc,
                                   !.missing = res.missing,
                                   !.made = (res.exc = "none"), !.orig = ctor.rows]
    /\ UNCHANGED <<out, call, trace, peer, ptrace, roll, first, sel, gbm>>

\* the caller overwrites one row of its own table after the construction
CallerMutates ==
    /\ ctor.made
    /\ ~ctor.mutated
    /\ \E i \in 1 .. Len(ctor.rows) :
          LET rows == [ctor.rows EXCEPT ![i] = [index |-> ctor.rows[i].index,
                                                x |-> F(7), ret_fwd |-> F(3)]]
          IN  /\ ctor' = [ctor EXCEPT !.rows = rows, !.mutated = TRUE]
              /\ self' = AfterCallerMutation(self, rows)
    /\ UNCHANGED <<out, call, trace, peer, ptrace, roll, first, sel, gbm>>

NewReset == ctor.made /\ DoReset

NewStep == ctor.made /\ DoStep

NextNew == DoConstruct \/ CallerMutates \/ NewReset \/ NewStep

SpecNew == InitNew /\ [][NextNew]_vars

----------------------------------------------------------------------------
(* simulator/features.py: the tolerant ATM selector on a table of quotes   *)

\* the quote tables: dates are day ordinals (2 is 2020-01-02); each kind of
\* quote is a tenor, a delta and a bid-ask spread, and every quote has an
\* implied volatility of its own, so that a selected row names its quote; the
\* last kind is a quote at the money whose implied volatility is missing
QuoteKinds ==
    << [tenor_d |-> 40, delta |-> Rat(2, 5), spread |-> Rat(1, 50), iv_nan |-> FALSE],
       [tenor_d |-> 18, delta |-> Rat(-9, 20), spread |-> Rat(1, 50), iv_nan |-> FALSE],
       [tenor_d |-> 20, delta |-> Rat(9, 20), spread |-> Rat(1, 50), iv_nan |-> FALSE],
       [tenor_d |-> 40, delta |-> Rat(2, 5), spread |-> Rat(1, 25), iv_nan |-> FALSE],
       [tenor_d |-> 52, delta |-> Rat(8, 25), spread |-> Rat(1, 50), iv_nan |-> FALSE],
       [tenor_d |-> 62, delta |-> Rat(27, 100), spread |-> Rat(1, 50), iv_nan |-> FALSE],
       [tenor_d |-> 40, delta |-> Rat(1, 10), spread |-> Rat(1, 50), iv_nan |-> FALSE],
       [tenor_d |-> 70, delta |-> Rat(1, 2), spread |-> Rat(1, 50), iv_nan |-> FALSE],
       [tenor_d |-> 40, delta |-> F(40), spread |-> Rat(1, 50), iv_nan |-> FALSE],
       [tenor_d |-> 45, delta |-> Rat(4, 5), spread |-> Rat(1, 50), iv_nan |-> FALSE],
       [tenor_d |-> 30, delta |-> Rat(1, 2), spread |-> Rat(1, 50), iv_nan |-> TRUE] >>
Dates == {1, 2}
Quote(k, d) ==
    [date |-> d, tenor_d |-> QuoteKinds[k].tenor_d, delta |-> QuoteKinds[k].delta,
     put_call |-> IF RLt(QuoteKinds[k].delta, F(0)) THEN "P" ELSE "C",
     bid |-> Rat(1, 5), ask |-> RAdd(Rat(1, 5), QuoteKinds[k].spread),
     iv |-> IF QuoteKinds[k].iv_nan THEN NaN ELSE Rat(20 + 2 * (k - 1) + d, 100)]
Quotes == {Quote(k, d) : k \in DOMAIN QuoteKinds, d \in Dates}
QuoteTables == UNION {SeqsOf(Quotes, n) : n \in 0 .. MaxQuotes}

\* make_option_features: the two tenors the ATM selector is called with
TargetDtes == {30, 91}

\* base_delta = 0.50
BaseDelta == Rat(1, 2)

\* the floor of a non-negative rational
Floor(x) == x[1] \div x[2]

\* values in ascending order
RECURSIVE SortValues(_)
SortValues(v) ==
    IF v = <<>> THEN <<>>
    ELSE LET k == CHOOSE k \in 1 .. Len(v) : \A j \in 1 .. Len(v) : RLe(v[k], v[j])
         IN  <<v[k]>> \o SortValues([i \in 1 .. Len(v) - 1 |-> IF i < k THEN v[i] ELSE v[i + 1]])

\* Series.quantile(0.99), linear interpolation; NaN on an empty series
Quantile99(v) ==
    IF v = <<>> THEN NaN
    ELSE LET sorted == SortValues(v)
             pos == Rat(99 * (Len(v) - 1), 100)
             lo == Floor(pos)
             hi == Min(lo + 1, Len(v) - 1)
             frac == RSub(pos, F(lo))
         IN  RAdd(At(sorted, lo), RMul(frac, RSub(At(sorted, hi), At(sorted, lo))))

\* .str.strip().str.upper().str[0].map({"C": "C", "P": "P"})
PutCallNorm(pc) ==
    IF pc \in {"C", "c", "call", " Call"} THEN "C"
    ELSE IF pc \in {"P", "p", "put", " Put"} THEN "P"
    ELSE "None"

\* _prep_base: deltas quoted in percent are divided by 100
PrepBase(df) ==
    LET q == Quantile99([i \in 1 .. Len(df) |-> RAbs(df[i].delta)])
        rescale == ~IsNaN(q) /\ RLt(F(2), q)
    IN  [i \in 1 .. Len(df) |->
            [df[i] EXCEPT !.put_call = PutCallNorm(@),
                          !.delta = IF rescale THEN RMul(@, Rat(1, 100)) ELSE @]]

\* for dte_tol, d_tol in [(15, 0.15), (25, 0.20), (35, 0.25)]
TiersNarrowFirst ==
    << [dte_tol |-> 5, d_tol |-> Rat(3, 20)], [dte_tol |-> 25, d_tol |-> Rat(1, 5)],
       [dte_tol |-> 35, d_tol |-> Rat(1, 4)] >>
Tiers ==
    << [dte_tol |-> 15, d_tol |-> Rat(3, 20)], [dte_tol |-> 25, d_tol |-> Rat(1, 5)],
       [dte_tol |-> 35, d_tol |-> Rat(1, 4)] >>

DteDiff(q, target_dte) == F(Abs(q.tenor_d - target_dte))
AtmDiff(q, base_delta) == RAbs(RSub(RAbs(q.delta), base_delta))
Spread(q) == RSub(q.ask, q.bid)

\* sort_values(["date", "dte_diff", "atm_diff", "spread"])
TierKeyAtmFirst(q, target_dte, base_delta) ==
    <<F(q.date), AtmDiff(q, base_delta), DteDiff(q, target_dte), Spread(q)>>
TierKey(q, target_dte, base_delta) ==
    <<F(q.date), DteDiff(q, target_dte), AtmDiff(q, base_delta), Spread(q)>>

\* sort_values(["date", "atm_diff", "spread"]) of the fallback
FallbackKeyDteFirst(q, base_delta) ==
    <<F(q.date), F(Abs(q.tenor_d - 30)), AtmDiff(q, base_delta), Spread(q)>>
FallbackKey(q, base_delta) == <<F(q.date), AtmDiff(q, base_delta), Spread(q)>>

\* the lexicographic order of the sort keys
KeyLt(a, b) ==
    \E i \in 1 .. Len(a) : /\ \A j \in 1 .. i - 1 : a[j] = b[j]
                           /\ RLt(a[i], b[i])

\* sort_values: rows [row, key] in ascending order of key, ties in input order
RECURSIVE SortByKey(_)
SortByKey(z) ==
    IF z = <<>> THEN <<>>
    ELSE LET k == CHOOSE k \in 1 .. Len(z) :
                      /\ \A j \in 1 .. Len(z) : ~KeyLt(z[j].key, z[k].key)
                      /\ \A j \in 1 .. k - 1 : KeyLt(z[k].key, z[j].key)
         IN  <<z[k]>> \o SortByKey([i \in 1 .. Len(z) - 1 |-> IF i < k THEN z[i] ELSE z[i + 1]])

\* drop_duplicates("date"): the first row of each date
DropDuplicatesFirstOnly(z, seen) == IF z = <<>> THEN <<>> ELSE <<z[1]>>
RECURSIVE DropDuplicates(_, _)
DropDuplicates(z, seen) ==
    IF z = <<>> THEN <<>>
    ELSE IF z[1].row.date \in seen THEN DropDuplicates(Tail(z), seen)
    ELSE <<z[1]>> \o DropDuplicates(Tail(z), seen \cup {z[1].row.date})

\* y[["date", "iv"]]
DateIv(y) == [i \in 1 .. Len(y) |-> [date |-> y[i].row.date, iv |-> y[i].row.iv]]

\* the fallback of _pick_atm_tolerant: nearest by delta within 35 days
PickAtmFallback(x, target_dte, base_delta) ==
    LET z == SelectSeq(x, LAMBDA q : Abs(q.tenor_d - target_dte) <= 35)
        keyed == [i \in 1 .. Len(z) |-> [row |-> z[i], key |-> FallbackKey(z[i], base_delta)]]
    IN  IF z = <<>> THEN [rows |-> <<>>, tier |-> 0]
        ELSE [rows |-> DateIv(DropDuplicates(SortByKey(keyed), {})), tier |-> 4]

\* the loop of _pick_atm_tolerant from tier k on; tier is the tier that
\* returned (4 the fallback, 0 the empty fallback)
RECURSIVE PickAtmFrom(_, _, _, _)
PickAtmFrom(x, target_dte, base_delta, k) ==
    IF k > Len(Tiers) THEN PickAtmFallback(x, target_dte, base_delta)
    ELSE LET z1 == SelectSeq(x, LAMBDA q : Abs(q.tenor_d - target_dte) <= Tiers[k].dte_tol)
             z == SelectSeq(z1, LAMBDA q : RLe(AtmDiff(q, base_delta), Tiers[k].d_tol))
             keyed == [i \in 1 .. Len(z) |->
                          [row |-> z[i], key |-> TierKey(z[i], target_dte, base_delta)]]
             y == DropDuplicates(SortByKey(keyed), {})
         IN  IF z1 = <<>> THEN PickAtmFrom(x, target_dte, base_delta, k + 1)
             ELSE IF z = <<>> THEN PickAtmFrom(x, target_dte, base_delta, k + 1)
             ELSE IF Len(y) > 0 THEN [rows |-> DateIv(y), tier |-> k]
             ELSE PickAtmFrom(x, target_dte, base_delta, k + 1)

\* _pick_atm_tolerant(df, target_dte, base_delta=0.50)
PickAtmTolerant(df, target_dte) == PickAtmFrom(PrepBase(df), target_dte, BaseDelta, 1)

InitSel ==
    /\ \E df \in QuoteTables, target \in TargetDtes :
          sel = [NoSel EXCEPT !.df = df, !.target = target]
    /\ self = NoEnv
    /\ out = NoOut
    /\ call = NoCall
    /\ trace = <<>>
    /\ peer = NoEnv
    /\ ptrace = <<>>
    /\ roll = NoRoll
    /\ first = NoFirst
    /\ ctor = NoCtor
    /\ gbm = NoGbm

PickAtm ==
    /\ ~sel.called
    /\ LET res == PickAtmTolerant(sel.df, sel.target)
       IN  sel' = [sel EXCEPT !.called = TRUE, !.rows = res.rows, !.tier = res.tier]
    /\ UNCHANGED <<self, out, call, trace, peer, ptrace, roll, first, ctor, gbm>>

NextSel == PickAtm

SpecSel == InitSel /\ [][NextSel]_vars

----------------------------------------------------------------------------
(* simulator/features.py: the 25-delta wings and the assembled features     *)

\* the quote tables of the wing selector: calls and puts around 25 delta at
\* the three tiers, a quote with an unrecognized put_call, a put whose
\* implied volatility is missing, and a call far from 25 delta
WingKinds ==
    << [tenor_d |-> 30, delta |-> Rat(13, 50), put_call |-> "C", iv_nan |-> FALSE],
       [tenor_d |-> 30, delta |-> Rat(-13, 50), put_call |-> "put", iv_nan |-> FALSE],
       [tenor_d |-> 50, delta |-> Rat(8, 25), put_call |-> "C", iv_nan |-> FALSE],
       [tenor_d |-> 60, delta |-> Rat(-17, 50), put_call |-> "P", iv_nan |-> FALSE],
       [tenor_d |-> 30, delta |-> Rat(-13, 50), put_call |-> "X", iv_nan |-> FALSE],
       [tenor_d |-> 28, delta |-> Rat(-1, 4), put_call |-> "P", iv_nan |-> TRUE],
       [tenor_d |-> 30, delta |-> Rat(3, 5), put_call |-> "C", iv_nan |-> FALSE],
       [tenor_d |-> 40, delta |-> Rat(27, 100), put_call |-> "C", iv_nan |-> FALSE] >>
WingQuote(k, d) ==
    [date |-> d, tenor_d |-> WingKinds[k].tenor_d, delta |-> WingKinds[k].delta,
     put_call |-> WingKinds[k].put_call,
     bid |-> Rat(1, 5), ask |-> Rat(11, 50),
     iv |-> IF WingKinds[k].iv_nan THEN NaN ELSE Rat(20 + 2 * (k - 1) + d, 100)]
WingQuotes == {WingQuote(k, d) : k \in DOMAIN WingKinds, d \in Dates}
WingTables == UNION {SeqsOf(WingQuotes, n) : n \in 0 .. MaxQuotes}

\* for dte_tol, dlt in [(15, 0.05), (25, 0.08), (35, 0.10)]
WingTiers ==
    << [dte_tol |-> 15, dlt |-> Rat(1, 20)], [dte_tol |-> 25, dlt |-> Rat(2, 25)],
       [dte_tol |-> 35, dlt |-> Rat(1, 10)] >>

\* (z["abs_delta"] - 0.25).abs()
DDiff(q) == RAbs(RSub(RAbs(q.delta), Rat(1, 4)))

\* the place of a put_call value in the sort: "C" before "P", missing last
PutCallKey(pc) == IF pc = "C" THEN F(0) ELSE IF pc = "P" THEN F(1) ELSE F(2)

\* sort_values(["date", "put_call", "dte_diff", "d_diff", "spread"])
WingKey(q, target_dte) ==
    <<F(q.date), PutCallKey(q.put_call), DteDiff(q, target_dte), DDiff(q), Spread(q)>>

\* sort_values(["date", "put_call", "d_diff", "spread"]) of the fallback
WingFallbackKey(q) == <<F(q.date), PutCallKey(q.put_call), DDiff(q), Spread(q)>>

\* a pivoted table: its columns, its dates, and the value of every cell (NaN
\* where the table has none); none marks out = None
NoWide == [none |-> TRUE, cols |-> {}, dates |-> {},
           v |-> [d \in Dates, pc \in {"C", "P"} |-> NaN]]

\* groupby(["date", "put_call"]).first(): rows of a missing put_call are
\* dropped, every column holds the first value of its group that is not
\* missing (NaN when all are); then pivot(index="date", columns="put_call")
GroupFirst(z, d, pc) ==
    LET g == SelectSeq(z, LAMBDA r : r.row.date = d /\ r.row.put_call = pc)
        ok == SelectSeq(g, LAMBDA r : ~IsNaN(r.row.iv))
    IN  IF ok = <<>> THEN NaN ELSE ok[1].row.iv

Pivot(sorted) ==
    LET kept == SelectSeq(sorted, LAMBDA r : r.row.put_call \in {"C", "P"})
    IN  [none |-> FALSE,
         cols |-> {kept[i].row.put_call : i \in 1 .. Len(kept)},
         dates |-> {kept[i].row.date : i \in 1 .. Len(kept)},
         v |-> [d \in Dates, pc \in {"C", "P"} |-> GroupFirst(kept, d, pc)]]

\* out.combine_first(wide): the cells of out, those missing filled from wide
CombineFirst(o, wide) ==
    [none |-> FALSE, cols |-> o.cols \cup wide.cols, dates |-> o.dates \cup wide.dates,
     v |-> [d \in Dates, pc \in {"C", "P"} |->
               IF IsNaN(o.v[d, pc]) THEN wide.v[d, pc] ELSE o.v[d, pc]]]

\* one pass of the tier loop of _pick_25d_wings_by_date: out after tier k
WingsTier(x, target_dte, k, o) ==
    LET z1 == SelectSeq(x, LAMBDA q : Abs(q.tenor_d - target_dte) <= WingTiers[k].dte_tol)
        z == SelectSeq(z1, LAMBDA q : RLe(DDiff(q), WingTiers[k].dlt))
        keyed == [i \in 1 .. Len(z) |-> [row |-> z[i], key |-> WingKey(z[i], target_dte)]]
    IN  IF z1 = <<>> THEN o
        ELSE IF z = <<>> THEN o
        ELSE CHOOSE r \in {IF o.none THEN wide ELSE CombineFirst(o, wide) :
                              wide \in {Pivot(SortByKey(keyed))}} : TRUE

\* the tier loop of _pick_25d_wings_by_date from tier k on
RECURSIVE WingsFrom(_, _, _, _)
WingsFrom(x, target_dte, k, o) ==
    IF k > Len(WingTiers) THEN o
    ELSE CHOOSE r \in {WingsFrom(x, target_dte, k + 1, next) :
                          next \in {WingsTier(x, target_dte, k, o)}} : TRUE

\* the dates of a set in ascending order
RECURSIVE SortDates(_)
SortDates(ds) ==
    IF ds = {} THEN <<>>
    ELSE LET d == CHOOSE d \in ds : \A e \in ds : d <= e
         IN  <<d>> \o SortDates(ds \ {d})

\* a difference of two columns: missing when either value is
Diff(a, b) == IF IsNaN(a) \/ IsNaN(b) THEN NaN ELSE RSub(a, b)

\* out.reset_index(); out["iv_skew_30d"] = out["iv_put25_30d"] - out["iv_call25_30d"]:
\* KeyError when the pivot has no put column or no call column
WingsResult(o) ==
    LET ds == SortDates(o.dates)
    IN  IF ~ ({"P", "C"} \subseteq o.cols) THEN [exc |-> "KeyError", rows |-> <<>>]
        ELSE [exc |-> "none",
              rows |-> [i \in 1 .. Len(ds) |->
                           [date |-> ds[i], iv_put25_30d |-> o.v[ds[i], "P"],
                            iv_call25_30d |-> o.v[ds[i], "C"],
                            iv_skew_30d |-> Diff(o.v[ds[i], "P"], o.v[ds[i], "C"])]]]

\* the fallback of _pick_25d_wings_by_date (out is None): an empty frame when
\* no quote is within 35 days, else the best quote per pair by delta and spread
WingsFallbackNoEmptyCheck(x, target_dte) ==
    LET z == SelectSeq(x, LAMBDA q : Abs(q.tenor_d - target_dte) <= 35)
        keyed == [i \in 1 .. Len(z) |-> [row |-> z[i], key |-> WingFallbackKey(z[i])]]
    IN  WingsResult(Pivot(SortByKey(keyed)))
WingsFallback(x, target_dte) ==
    LET z == SelectSeq(x, LAMBDA q : Abs(q.tenor_d - target_dte) <= 35)
        keyed == [i \in 1 .. Len(z) |-> [row |-> z[i], key |-> WingFallbackKey(z[i])]]
    IN  IF z = <<>> THEN [exc |-> "none", rows |-> <<>>]
        ELSE WingsResult(Pivot(SortByKey(keyed)))

\* _pick_25d_wings_by_date(df, target_dte=30)
PickWings(df, target_dte) ==
    CHOOSE r \in {IF ~o.none THEN WingsResult(o) ELSE WingsFallback(PrepBase(df), target_dte) :
                     o \in {WingsFrom(PrepBase(df), target_dte, 1, NoWide)}} : TRUE

\* the value of a column on a date, missing when the frame has no such row
Lookup(rows, d, col) ==
    IF \E i \in 1 .. Len(rows) : rows[i].date = d
    THEN rows[CHOOSE i \in 1 .. Len(rows) : rows[i].date = d][col]
    ELSE NaN

\* feats.merge(wings, on="date", how="left"): the dates of the left frame
MergedDates(left, right) == left

\* the merges of make_option_features on the three selector outputs
Assemble(iv30, iv91, wings) ==
    LET atm == {iv30[i].date : i \in 1 .. Len(iv30)} \cup {iv91[i].date : i \in 1 .. Len(iv91)}
        ds == SortDates(MergedDates(atm, {wings.rows[i].date : i \in 1 .. Len(wings.rows)}))
    IN  IF ~ (wings.exc = "none")
        THEN [exc |-> wings.exc, rows |-> <<>>, iv30 |-> iv30, iv91 |-> iv91]
        ELSE [exc |-> "none", iv30 |-> iv30, iv91 |-> iv91,
              rows |-> [i \in 1 .. Len(ds) |->
                  [date |-> ds[i],
                   iv_atm_30d |-> Lookup(iv30, ds[i], "iv"),
                   iv_atm_91d |-> Lookup(iv91, ds[i], "iv"),
                   iv_ts_slope |-> Diff(Lookup(iv91, ds[i], "iv"), Lookup(iv30, ds[i], "iv")),
                   iv_put25_30d |-> Lookup(wings.rows, ds[i], "iv_put25_30d"),
                   iv_call25_30d |-> Lookup(wings.rows, ds[i], "iv_call25_30d"),
                   iv_skew_30d |-> Lookup(wings.rows, ds[i], "iv_skew_30d")]]]

\* make_option_features on the quotes read from the cleaned parts
MakeOptionFeatures(base) ==
    CHOOSE r \in {Assemble(iv30, iv91, wings) :
                     iv30 \in {PickAtmTolerant(base, 30).rows},
                     iv91 \in {PickAtmTolerant(base, 91).rows},
                     wings \in {PickWings(base, 30)}} : TRUE

InitFeat ==
    /\ \E df \in WingTables : sel = [NoSel EXCEPT !.df = df, !.target = 30]
    /\ self = NoEnv
    /\ out = NoOut
    /\ call = NoCall
    /\ trace = <<>>
    /\ peer = NoEnv
    /\ ptrace = <<>>
    /\ roll = NoRoll
    /\ first = NoFirst
    /\ ctor = NoCtor
    /\ gbm = NoGbm

DoPickWings ==
    /\ ~sel.wcalled
    /\ \E res \in {PickWings(sel.df, sel.target)} :
           sel' = [sel EXCEPT !.wcalled = TRUE, !.wexc = res.exc, !.wings = res.rows]
    /\ UNCHANGED <<self, out, call, trace, peer, ptrace, roll, first, ctor, gbm>>

DoMakeOptionFeatures ==
    /\ ~sel.fcalled
    /\ \E res \in {MakeOptionFeatures(sel.df)} :
           sel' = [sel EXCEPT !.fcalled = TRUE, !.fexc = res.exc, !.feats = res.rows,
                              !.iv30 = res.iv30, !.iv91 = res.iv91]
    /\ UNCHANGED <<self, out, call, trace, peer, ptrace, roll, first, ctor, gbm>>

NextFeat == DoPickWings \/ DoMakeOptionFeatures

SpecFeat == InitFeat /\ [][NextFeat]_vars

----------------------------------------------------------------------------
(* PathGenerator: gbm_paths(s0, mu, sigma, dt, n_steps, n_paths, seed)      *)

\* the generator: a linear congruential sequence; its start state is
\* determined by the seed alone, whatever state an earlier call left
RngModulus == 31
SeededFromPrevious(seed, left) == IF left = NoneInt THEN seed % RngModulus ELSE left
Seeded(seed, left) == seed % RngModulus
RngNext(state) == (5 * state + 3) % RngModulus

\* the state of the generator after n draws
RECURSIVE RngAfter(_, _)
RngAfter(state, n) == IF n = 0 THEN state ELSE RngAfter(RngNext(state), n - 1)

\* the n-th draw (from 1) of a generator started in state: a stand-in for a
\* standard normal draw, one of -1, 0, 1
Draw(state, n) == F((RngAfter(state, n) % 3) - 1)

\* the square root of dt, for the step sizes used (1 and 4)
SqrtDt(dt) == IF dt = 4 THEN F(2) ELSE F(1)

\* exp(x), carried to the second order: 1 + x + x^2 / 2, a positive rational
Exp(x) == RAdd(RAdd(F(1), x), RMul(Rat(1, 2), RMul(x, x)))

\* the growth factor exp((mu - sigma^2 / 2) dt + sigma sqrt(dt) z)
Growth(mu, sigma, dt, z) ==
    Exp(RAdd(RMul(RSub(mu, RMul(Rat(1, 2), RMul(sigma, sigma))), F(dt)),
             RMul(RMul(sigma, SqrtDt(dt)), z)))

\* row t (from 0) of the array: row 0 is s0 in every path, row t + 1 is row t
\* times the growth factor of the draw of step t and path p
RECURSIVE GbmRow(_, _, _, _, _, _, _)
GbmRow(s0, mu, sigma, dt, n_paths, start, t) ==
    IF t = 0 THEN [p \in 1 .. n_paths |-> s0]
    ELSE LET prev == GbmRow(s0, mu, sigma, dt, n_paths, start, t - 1)
         IN  [p \in 1 .. n_paths |->
                 RMul(prev[p], Growth(mu, sigma, dt, Draw(start, (t - 1) * n_paths + p)))]

\* gbm_paths: the (n_steps + 1) x n_paths array and the state the generator is
\* left in
GbmPaths(s0, mu, sigma, dt, n_steps, n_paths, seed, left) ==
    LET start == Seeded(seed, left)
    IN  [paths |-> [r \in 1 .. n_steps + 1 |->
                       GbmRow(s0, mu, sigma, dt, n_paths, start, r - 1)],
         rng |-> RngAfter(start, n_steps * n_paths)]

\* the arguments of the calls
GbmS0 == {F(1), F(100)}
GbmMu == {F(0), Rat(1, 2)}
GbmSigma == {F(0), F(1)}
GbmDt == {1, 4}
GbmSeeds == {0, 7, 42}

InitGbm ==
    /\ \E s0 \in GbmS0, mu \in GbmMu, sigma \in GbmSigma, dt \in GbmDt,
          n_steps \in 1 .. MaxGbmSteps, n_paths \in 1 .. MaxPaths, seed \in GbmSeeds :
          gbm = [NoGbm EXCEPT !.s0 = s0, !.mu = mu, !.sigma = sigma, !.dt = dt,
                              !.n_steps = n_steps, !.n_paths = n_paths, !.seed = seed]
    /\ self = NoEnv
    /\ out = NoOut
    /\ call = NoCall
    /\ trace = <<>>
    /\ peer = NoEnv
    /\ ptrace = <<>>
    /\ roll = NoRoll
    /\ first = NoFirst
    /\ ctor = NoCtor
    /\ sel = NoSel

GbmFirstCall ==
    /\ gbm.calls = 0
    /\ LET res == GbmPaths(gbm.s0, gbm.mu, gbm.sigma, gbm.dt, gbm.n_steps, gbm.n_paths,
                           gbm.seed, gbm.rng)
       IN  gbm' = [gbm EXCEPT !.calls = 1, !.paths1 = res.paths, !.rng = res.rng]
    /\ UNCHANGED <<self, out, call, trace, peer, ptrace, roll, first, ctor, sel>>

GbmSecondCall ==
    /\ gbm.calls = 1
    /\ LET res == GbmPaths(gbm.s0, gbm.mu, gbm.sigma, gbm.dt, gbm.n_steps, gbm.n_paths,
                           gbm.seed, gbm.rng)
       IN  gbm' = [gbm EXCEPT !.calls = 2, !.paths2 = res.paths, !.rng = res.rng]
    /\ UNCHANGED <<self, out, call, trace, peer, ptrace, roll, first, ctor, sel>>

NextGbm == GbmFirstCall \/ GbmSecondCall

SpecGbm == InitGbm /\ [][NextGbm]_vars

----------------------------------------------------------------------------
(* Properties *)

\* the last call was a step on a running (reset, not finished) episode
StepRan == call.op = "step" /\ call.pre.done = "False"

\* the last call was a step on a finished episode
StepAfterDone == call.op = "step" /\ call.pre.done = "True"

\* x brought to the nearer end of [-lim, lim] when it lies outside
Clipped(x, lim) ==
    IF RLt(lim, x) THEN lim ELSE IF RLt(x, RNeg(lim)) THEN RNeg(lim) ELSE x

NoLookahead ==
    (call.op \in {"reset", "step"} /\ out.exc = "none") =>
        /\ Len(out.obs) = self.window
        /\ \A k \in 1 .. Len(out.obs) :
              /\ out.obs[k].idx = self.t - self.window + k - 1
              /\ out.obs[k].idx < self.t
              /\ out.obs[k].idx >= 0
              /\ out.obs[k].val = IF IsNaN(At(self.X, out.obs[k].idx)) THEN F(0)
                                  ELSE At(self.X, out.obs[k].idx)

\* a step returned a two-row observation for an index past the reset index
NoLookaheadWitness ==
    /\ StepRan
    /\ self.window = 2
    /\ self.t > self.window
    /\ Len(out.obs) = 2
    /\ out.obs[2].idx = self.t - 1

\* C3: a step sets done exactly when the advanced index exceeds T-1, the last
\* index with a defined forward return; so when an episode is done, the forward
\* returns at the indices window .. T-1 have each been consumed once.
DoneWhenPastLastReturn ==
    (StepRan /\ out.exc = "none") =>
        /\ self.done = "True" <=> self.t > self.T - 1
        /\ self.done = "True" =>
              /\ Len(trace) = self.T - self.window
              /\ \A k \in 1 .. Len(trace) : trace[k].t = self.window + k - 1

\* C5: a step on a finished episode, with any action, returns reward 0 and
\* done = true with info ret/pnl/cost equal to 0, raises nothing, and leaves
\* t, pos, nav and done as they were.
DoneStepIsNoOp ==
    StepAfterDone =>
        /\ out.exc = "none"
        /\ out.reward = F(0)
        /\ out.done = "True"
        /\ out.info.ret = F(0)
        /\ out.info.pnl = F(0)
        /\ out.info.cost = F(0)
        /\ Runtime(self) = call.pre

\* a finished episode holding a short position was stepped with a long action
DoneStepIsNoOpWitness ==
    /\ StepAfterDone
    /\ call.pre.pos = F(-1)
    /\ call.action = F(1)
    /\ ~ (call.pre.nav = F(1))

\* C6: a step before any reset, or after done, raises an error, and that error
\* is neither of the construction errors KeyError and ValueError.
MisuseSignalled ==
    (call.op = "step" /\ (call.pre.done = "True" \/ call.pre.t = NoneInt)) =>
        out.exc \notin {"none", "KeyError", "ValueError"}

\* C10: the cost of an executed step is (txn_cost_bps * 1e-4) * |a - previous
\* position| with a the clipped action; it is zero when a is the position
\* already held and it is never negative.
CostOnPositionChange ==
    (StepRan /\ out.exc = "none") =>
        LET a == Clipped(call.action, self.pos_limit)
            d == RAbs(RSub(a, call.pre.pos))
        IN  /\ out.info.cost = RMul(Rat(self.txn_cost_bps, 10000), d)
            /\ a = call.pre.pos => out.info.cost = F(0)
            /\ RLe(F(0), out.info.cost)

\* an out-of-range action was repeated on the side already held, at a positive
\* cost rate, and cost nothing
CostOnPositionChangeWitness ==
    /\ StepRan
    /\ self.txn_cost_bps > 0
    /\ RLt(self.pos_limit, call.action)
    /\ call.pre.pos = self.pos_limit
    /\ out.info.cost = F(0)

\* C4: a rollout called without max_steps reports steps = T - window - 1.
FullRolloutSteps ==
    (call.op = "rollout" /\ call.max_steps = NoneInt) =>
        roll.steps = self.T - self.window - 1

\* a rollout without max_steps that took two steps under an observation-driven
\* policy
FullRolloutStepsWitness ==
    /\ call.op = "rollout"
    /\ call.max_steps = NoneInt
    /\ call.policy = "follow"
    /\ roll.steps = 2
    /\ Len(roll.rewards) = 2

\* C7: a rollout that repeats the policy and max_steps of a remembered earlier
\* rollout on the same instance returns the same dictionary, whatever state
\* the instance was in when it was called.
ReplayIdentical ==
    (call.op = "rollout" /\ call.repeat) => roll = first.result

\* the repeated rollout was started in the middle of a running episode
ReplayIdenticalWitness ==
    /\ call.op = "rollout"
    /\ call.repeat
    /\ call.policy = "follow"
    /\ call.pre.done = "False"
    /\ call.pre.t > self.window
    /\ ~ (call.pre.pos = F(0))
    /\ roll.steps >= 2

\* the number of steps from a fresh reset until done
RECURSIVE StepsUntilDone(_, _)
StepsUntilDone(s, n) ==
    IF Truthy(s.done) THEN n ELSE StepsUntilDone(Step(s, F(0)).self, n + 1)

\* C8: rollout(policy, max_steps = m) with m >= 0 reports
\* steps = min(m, number of steps needed to reach done); m = 0 takes no step.
MaxStepsBoundsRollout ==
    (call.op = "rollout" /\ call.max_steps >= 0) =>
        roll.steps = Min(call.max_steps, StepsUntilDone(Reset(self).self, 0))

\* the position changed at some executed step of the episode
Moved(tr) ==
    \E k \in 1 .. Len(tr) : ~ (tr[k].pos = IF k = 1 THEN F(0) ELSE tr[k - 1].pos)

\* every executed step of the episode multiplied NAV by a positive factor
GrowthPositive(tr) == \A k \in 1 .. Len(tr) : RLt(F(0), RAdd(F(1), tr[k].pnl))

\* NAV under the higher cost is at most NAV under the lower cost, and below it
\* once the position has changed
NavOrdered ==
    /\ RLe(peer.nav, self.nav)
    /\ Moved(trace) => RLt(peer.nav, self.nav)

\* C9 as stated: for every panel, after every step of two episodes that take
\* the same actions at costs c1 < c2, NAV under c2 <= NAV under c1, strictly
\* once the position has changed.
CostMonotone == ~ (self.nav = NoneF) => NavOrdered

\* C9 as amended: the same, for episodes in which every step so far has kept
\* 1 + pnl positive under both cost levels.
CostMonotoneWhileGrowthPositive ==
    (~ (self.nav = NoneF) /\ GrowthPositive(trace) /\ GrowthPositive(ptrace)) => NavOrdered

\* two steps were taken, the position changed at the second, every factor was
\* positive, and NAV under the higher cost is the lower one
CostMonotoneWitness ==
    /\ Len(trace) >= 2
    /\ ~ (trace[2].pos = trace[1].pos)
    /\ GrowthPositive(trace)
    /\ GrowthPositive(ptrace)
    /\ RLt(peer.nav, self.nav)

\* C11: an executed step at index t reads ret = R[t], computes
\* pnl = a * ret - cost with the clipped action a, sets nav to nav * (1 + pnl),
\* pos to a and t to t + 1, and returns reward_fn(pnl, info) with info holding
\* this step's ret, pnl and cost and the updated pos and nav.
StepUpdate ==
    (StepRan /\ out.exc = "none") =>
        LET a == Clipped(call.action, self.pos_limit)
            r == At(self.R, call.pre.t)
            pnl == RSub(RMul(a, r), out.info.cost)
        IN  /\ out.info.ret = r
            /\ out.info.pnl = pnl
            /\ self.nav = RMul(call.pre.nav, RAdd(F(1), pnl))
            /\ self.pos = a
            /\ self.t = call.pre.t + 1
            /\ out.info.pos = self.pos
            /\ out.info.nav = self.nav
            /\ out.reward = RewardFn(pnl, out.info)

\* a second step of an episode moved the position, paid a cost and changed a
\* NAV that was no longer 1
StepUpdateWitness ==
    /\ StepRan
    /\ Len(trace) >= 2
    /\ ~ (call.pre.nav = F(1))
    /\ RLt(F(0), out.info.cost)
    /\ ~ (out.info.pnl = F(0))
    /\ ~ (self.nav = call.pre.nav)

\* C12: reset, called without a start index from any state, leaves t = window,
\* pos = 0, nav = 1, done = false and returns the observation of the rows
\* 0 .. window-1, whatever came before.
ResetState ==
    (call.op = "reset" /\ call.t0 = NoneInt) =>
        /\ out.exc = "none"
        /\ self.t = self.window
        /\ self.pos = F(0)
        /\ self.nav = F(1)
        /\ self.done = "False"
        /\ Len(out.obs) = self.window
        /\ \A k \in 1 .. Len(out.obs) :
              /\ out.obs[k].idx = k - 1
              /\ out.obs[k].val = IF IsNaN(At(self.X, k - 1)) THEN F(0)
                                  ELSE At(self.X, k - 1)

\* reset was called on a finished episode whose NAV and position had moved
ResetStateWitness ==
    /\ call.op = "reset"
    /\ call.t0 = NoneInt
    /\ call.pre.done = "True"
    /\ ~ (call.pre.nav = F(1))
    /\ ~ (call.pre.pos = F(0))
    /\ self.nav = F(1)

\* C13: reset(t0) starts the episode at t = t0 when t0 leaves room for one
\* window of history and has a forward return, and raises a configuration
\* error (ValueError) when t0 is out of bounds.
ResetAtStartIndex ==
    (call.op = "reset" /\ ~ (call.t0 = NoneInt)) =>
        IF call.t0 >= self.window /\ call.t0 <= self.T - 1
        THEN out.exc = "none" /\ self.t = call.t0 /\ self.done = "False"
        ELSE out.exc = "ValueError"

\* the columns the constructor needs and the table lacks
Absent == {c \in Range(ctor.features) \cup {"ret_fwd"} : c \notin ctor.columns}

\* the number of rows of the table, as passed, with a defined forward return
Usable == Cardinality({i \in 1 .. Len(ctor.orig) : ~IsNaN(ctor.orig[i].ret_fwd)})

\* C14: constructing on a table that lacks a listed feature column or ret_fwd
\* raises KeyError naming exactly the absent columns, and makes no instance;
\* a table that has them all raises no KeyError.
MissingColumnsRaise ==
    ctor.called =>
        IF Absent = {} THEN ~ (ctor.exc = "KeyError")
        ELSE ctor.exc = "KeyError" /\ ctor.missing = Absent /\ ~ctor.made /\ self = NoEnv

\* the table has a listed feature but lacks another one and ret_fwd
MissingColumnsRaiseWitness ==
    /\ ctor.called
    /\ ctor.columns = {"x"}
    /\ ctor.features = <<"x", "y">>
    /\ Absent = {"y", "ret_fwd"}
    /\ ctor.exc = "KeyError"

\* C15: with the columns present the constructor raises ValueError exactly
\* when window >= T, the number of rows with a defined ret_fwd; every instance
\* made has window < T.
WindowCheck ==
    (ctor.called /\ Absent = {}) =>
        /\ ctor.exc = "ValueError" <=> ctor.window >= Usable
        /\ ctor.made <=> ctor.window < Usable
        /\ ctor.made => self.T = Usable /\ self.window < self.T

\* window equals the number of usable rows of a table that has an unusable one
WindowCheckWitness ==
    /\ ctor.called
    /\ Absent = {}
    /\ ctor.window = Usable
    /\ Len(ctor.orig) > Usable
    /\ ctor.exc = "ValueError"

\* the rows of the table as passed that have a defined forward return, in
\* the order of their index labels
Kept ==
    LET ok == {n \in 1 .. Len(ctor.orig) : ~IsNaN(ctor.orig[n].ret_fwd)}
        rank(n) == Cardinality({m \in ok : ctor.orig[m].index <= ctor.orig[n].index})
    IN  [i \in 1 .. Cardinality(ok) |-> ctor.orig[CHOOSE n \in ok : rank(n) = i]]

\* C16: no observation returned by reset or step holds a NaN or an infinite
\* value: each such entry of the window is 0 and every other entry is the
\* stored value; the stored feature array X keeps its NaN and infinite entries.
ObservationFinite ==
    (ctor.made /\ call.op \in {"reset", "step"} /\ out.exc = "none") =>
        /\ \A k \in 1 .. Len(out.obs) :
              LET v == At(self.X, out.obs[k].idx)
              IN  /\ IsFinite(out.obs[k].val)
                  /\ out.obs[k].val = IF IsFinite(v) THEN v ELSE F(0)
        /\ \A i \in 1 .. self.T : self.X[i] = Kept[i].x

\* an observation whose window covers a NaN and an infinite stored value
ObservationFiniteWitness ==
    /\ ctor.made
    /\ call.op = "step"
    /\ Len(out.obs) = 2
    /\ \E k \in 1 .. 2 : self.X[out.obs[k].idx + 1] = PosInf
    /\ \E k \in 1 .. 2 : self.X[out.obs[k].idx + 1] \in {NaN, NegInf}

ArraysAligned ==
    ctor.made =>
        /\ Len(self.X) = self.T
        /\ Len(self.R) = self.T
        /\ \E f \in [1 .. self.T -> 1 .. Len(ctor.orig)] :
              /\ \A i \in 1 .. self.T, j \in 1 .. self.T :
                    i < j => ctor.orig[f[i]].index < ctor.orig[f[j]].index
              /\ {f[i] : i \in 1 .. self.T}
                    = {n \in 1 .. Len(ctor.orig) : ~IsNaN(ctor.orig[n].ret_fwd)}
              /\ \A i \in 1 .. self.T : /\ self.X[i] = ctor.orig[f[i]].x
                                        /\ self.R[i] = ctor.orig[f[i]].ret_fwd
        /\ \A i \in 1 .. self.T : ~IsNaN(self.R[i])
        /\ \A k \in 1 .. Len(trace) : ~IsNaN(trace[k].ret)

\* an instance made from a table passed out of index order whose row of least
\* index has no forward return, stepped
ArraysAlignedWitness ==
    /\ ctor.made
    /\ ctor.orig[1].index > ctor.orig[2].index
    /\ \E n \in 1 .. Len(ctor.orig) : ctor.orig[n].index = 1 /\ IsNaN(ctor.orig[n].ret_fwd)
    /\ self.T = Len(ctor.orig) - 1
    /\ Len(trace) >= 1

\* the prepared quotes of the table that tier k admits for the target tenor
Admitted(k) ==
    LET x == PrepBase(sel.df)
    IN  {i \in 1 .. Len(x) :
            /\ Abs(x[i].tenor_d - sel.target) <= Tiers[k].dte_tol
            /\ RLe(RAbs(RSub(RAbs(x[i].delta), Rat(1, 2))), Tiers[k].d_tol)}

\* quote i is no closer than quote j: tenor first, then delta, then spread
NoCloser(i, j) ==
    LET x == PrepBase(sel.df)
        dte(n) == Abs(x[n].tenor_d - sel.target)
        atm(n) == RAbs(RSub(RAbs(x[n].delta), Rat(1, 2)))
        spr(n) == RSub(x[n].ask, x[n].bid)
    IN  \/ dte(j) < dte(i)
        \/ dte(j) = dte(i) /\ RLt(atm(j), atm(i))
        \/ dte(j) = dte(i) /\ atm(j) = atm(i) /\ RLe(spr(j), spr(i))

\* C19: the selector returns the result of the first of the tiers (15d, 0.15),
\* (25d, 0.20), (35d, 0.25) that admits any quote, and only that tier's
\* quotes: one row per date of that tier, holding the implied volatility of a
\* quote of that date that is minimal under (|tenor_d - target|,
\* |abs(delta) - 0.50|, ask - bid) among the tier's quotes of the date.
FirstTierBestQuote ==
    sel.called =>
        LET hit == {k \in 1 .. 3 : ~ (Admitted(k) = {})}
        IN  IF hit = {} THEN sel.tier \notin 1 .. 3
            ELSE LET k0 == CHOOSE k \in hit : \A m \in hit : k <= m
                     in == Admitted(k0)
                 IN  /\ sel.tier = k0
                     /\ {sel.rows[n].date : n \in 1 .. Len(sel.rows)}
                           = {sel.df[i].date : i \in in}
                     /\ \A n \in 1 .. Len(sel.rows), m \in 1 .. Len(sel.rows) :
                           sel.rows[n].date = sel.rows[m].date => n = m
                     /\ \A n \in 1 .. Len(sel.rows) :
                           \E i \in in :
                              /\ sel.df[i].date = sel.rows[n].date
                              /\ sel.df[i].iv = sel.rows[n].iv
                              /\ \A j \in in : sel.df[j].date = sel.df[i].date => NoCloser(j, i)

\* the second tier is the first to admit a quote, and the table has a quote of
\* another date that only the third tier admits: it is left out of the result
FirstTierBestQuoteWitness ==
    /\ sel.called
    /\ sel.tier = 2
    /\ Len(sel.rows) = 1
    /\ \E i \in Admitted(3) : i \notin Admitted(2) /\ ~ (sel.df[i].date = sel.rows[1].date)

\* the table whose only quote is at tenor 40, delta 0.40, implied volatility
\* 0.22, on 2020-01-02, given to the 30-day selector
SingleQuoteCall ==
    /\ sel.called
    /\ sel.target = 30
    /\ Len(sel.df) = 1
    /\ sel.df[1].date = 2
    /\ sel.df[1].tenor_d = 40
    /\ sel.df[1].delta = Rat(2, 5)
    /\ sel.df[1].iv = Rat(22, 100)

\* C20 as stated: the single quote at tenor 40, delta 0.40 is resolved by the
\* third (35d, 0.25) tier and the output is the row {2020-01-02, 0.22}.
SingleQuoteThirdTier ==
    SingleQuoteCall => sel.rows = <<[date |-> 2, iv |-> Rat(22, 100)]>> /\ sel.tier = 3

\* C20 amended: the single quote at tenor 40, delta 0.40 is within the first
\* (15d, 0.15) tier of the 30-day selector (10 days and 0.10 away), is resolved
\* by that tier, and the output is the row {2020-01-02, 0.22}.
SingleQuoteFirstTier ==
    SingleQuoteCall => sel.rows = <<[date |-> 2, iv |-> Rat(22, 100)]>> /\ sel.tier = 1

SingleQuoteFirstTierWitness == SingleQuoteCall /\ Len(sel.rows) = 1

\* the prepared quotes of the table within 35 days of the target tenor
Pool ==
    LET x == PrepBase(sel.df)
    IN  {i \in 1 .. Len(x) : Abs(x[i].tenor_d - sel.target) <= 35}

\* quote i is no closer to the money than quote j: delta first, then spread
NoCloserToMoney(i, j) ==
    LET x == PrepBase(sel.df)
        atm(n) == RAbs(RSub(RAbs(x[n].delta), Rat(1, 2)))
        spr(n) == RSub(x[n].ask, x[n].bid)
    IN  \/ RLt(atm(j), atm(i))
        \/ atm(j) = atm(i) /\ RLe(spr(j), spr(i))

\* C21: when no tier admits a quote the selector takes the quotes within 35
\* days of the target tenor, whatever their delta, and returns per date the
\* implied volatility of a quote minimal under (|abs(delta) - 0.50|,
\* ask - bid), the tenor distance not ranking; a date without such a quote has
\* no row, and with no such quote at all the result is empty.
FallbackNearestDelta ==
    (sel.called /\ \A k \in 1 .. 3 : Admitted(k) = {}) =>
        /\ sel.tier = IF Pool = {} THEN 0 ELSE 4
        /\ {sel.rows[n].date : n \in 1 .. Len(sel.rows)} = {sel.df[i].date : i \in Pool}
        /\ \A n \in 1 .. Len(sel.rows), m \in 1 .. Len(sel.rows) :
              sel.rows[n].date = sel.rows[m].date => n = m
        /\ \A n \in 1 .. Len(sel.rows) :
              \E i \in Pool :
                 /\ sel.df[i].date = sel.rows[n].date
                 /\ sel.df[i].iv = sel.rows[n].iv
                 /\ \A j \in Pool : sel.df[j].date = sel.df[i].date => NoCloserToMoney(j, i)

\* the fallback chose, on a date with two quotes, the one farther in tenor
FallbackNearestDeltaWitness ==
    /\ sel.called
    /\ sel.tier = 4
    /\ Len(sel.rows) = 1
    /\ \E i \in Pool, j \in Pool :
          /\ sel.df[i].iv = sel.rows[1].iv
          /\ sel.df[j].date = sel.df[i].date
          /\ Abs(sel.df[i].tenor_d - sel.target) > Abs(sel.df[j].tenor_d - sel.target)

\* C29: every date that has a quote within 35 days of the target tenor has a
\* row in the output of the ATM selector, also when its quotes match only a
\* wider tier (or the fallback) than the quotes of another date.
EveryDateCovered ==
    sel.called =>
        \A i \in Pool : \E n \in 1 .. Len(sel.rows) : sel.rows[n].date = sel.df[i].date

\* C29 amended: the dates of the output are exactly the dates with a quote
\* that the returning tier admits - the first tier that admits any quote of
\* the table, or with no such tier the quotes within 35 days of the target; a
\* date whose quotes match only a wider tier (or only the fallback) has no row
\* when another date matches a tighter tier.
DatesOfReturningTier ==
    sel.called =>
        LET hit == {k \in 1 .. 3 : ~ (Admitted(k) = {})}
            in == IF hit = {} THEN Pool ELSE Admitted(CHOOSE k \in hit : \A m \in hit : k <= m)
        IN  {sel.rows[n].date : n \in 1 .. Len(sel.rows)} = {sel.df[i].date : i \in in}

\* the first tier returned one date, and the other date has a quote within 35
\* days of the target that no tier admits
DatesOfReturningTierWitness ==
    /\ sel.called
    /\ sel.tier = 1
    /\ Len(sel.rows) = 1
    /\ \E i \in Pool : /\ ~ (sel.df[i].date = sel.rows[1].date)
                        /\ \A k \in 1 .. 3 : i \notin Admitted(k)

\* the quotes with no missing value
Valid(i) == ~IsNaN(sel.df[i].iv) /\ ~IsNaN(sel.df[i].delta)
            /\ ~IsNaN(sel.df[i].bid) /\ ~IsNaN(sel.df[i].ask)

\* C23: a quote with a missing value is not the representative of its date
\* when the date has a valid quote that the returning tier admits: the row of
\* such a date holds a valid quote's implied volatility, not a missing one.
InvalidQuoteDisqualified ==
    (sel.called /\ sel.tier \in 1 .. 3) =>
        \A n \in 1 .. Len(sel.rows) :
            (\E i \in Admitted(sel.tier) : Valid(i) /\ sel.df[i].date = sel.rows[n].date)
                => ~IsNaN(sel.rows[n].iv)

\* C22: the wing selector does not raise on a table with the expected
\* columns, whatever is missing in it: no quote at any tier, only calls or
\* only puts within the tolerances, or no recognized put_call.
SparsityNotFatal == sel.wcalled => sel.wexc = "none"

\* C24: on a table with zero rows the ATM selector (for 30 and for 91 days)
\* and the wing selector return no row and raise nothing.
EmptySurfaceSafe ==
    sel.df = <<>> =>
        /\ sel.wcalled => sel.wexc = "none" /\ sel.wings = <<>>
        /\ sel.fcalled => sel.iv30 = <<>> /\ sel.iv91 = <<>>

\* both selectors and the assembly have run on the table with zero rows
EmptySurfaceSafeWitness == sel.df = <<>> /\ sel.wcalled /\ sel.fcalled

\* the prepared quotes of a date and a side that wing tier k admits
WingAdmitted(k, d, pc) ==
    LET x == PrepBase(sel.df)
    IN  {i \in 1 .. Len(x) :
            /\ x[i].date = d
            /\ x[i].put_call = pc
            /\ Abs(x[i].tenor_d - 30) <= WingTiers[k].dte_tol
            /\ RLe(RAbs(RSub(RAbs(x[i].delta), Rat(1, 4))), WingTiers[k].dlt)}

\* quote i is no closer to the wing than quote j: tenor, then delta, then spread
NoCloserToWing(i, j) ==
    LET x == PrepBase(sel.df)
        dte(n) == Abs(x[n].tenor_d - 30)
        dd(n) == RAbs(RSub(RAbs(x[n].delta), Rat(1, 4)))
        spr(n) == RSub(x[n].ask, x[n].bid)
    IN  \/ dte(j) < dte(i)
        \/ dte(j) = dte(i) /\ RLt(dd(j), dd(i))
        \/ dte(j) = dte(i) /\ dd(j) = dd(i) /\ RLe(spr(j), spr(i))

\* value v is what the claim gives the side pc of date d: the implied
\* volatility of a best-ranked quote of the tightest tier that admits one for
\* the pair, missing when no tier does
WingValue(v, d, pc) ==
    LET hit == {k \in 1 .. 3 : ~ (WingAdmitted(k, d, pc) = {})}
    IN  IF hit = {} THEN IsNaN(v)
        ELSE LET in == WingAdmitted(CHOOSE k \in hit : \A m \in hit : k <= m, d, pc)
             IN  \E i \in in : /\ sel.df[i].iv = v
                               /\ \A j \in in : NoCloserToWing(j, i)

\* C25: when some tier admits a quote, the wing selector returns for every
\* date the put and the call value chosen independently per (date, put_call)
\* pair at the pair's tightest tier, and the skew put - call, missing when
\* either side is missing.
WingsPerPair ==
    (sel.wcalled /\ \E k \in 1 .. 3, d \in Dates, pc \in {"C", "P", "None"} :
                        ~ (WingAdmitted(k, d, pc) = {})) =>
        /\ sel.wexc = "none"
        /\ \A n \in 1 .. Len(sel.wings) :
              /\ WingValue(sel.wings[n].iv_put25_30d, sel.wings[n].date, "P")
              /\ WingValue(sel.wings[n].iv_call25_30d, sel.wings[n].date, "C")
              /\ sel.wings[n].iv_skew_30d
                    = IF IsNaN(sel.wings[n].iv_put25_30d) \/ IsNaN(sel.wings[n].iv_call25_30d)
                      THEN NaN
                      ELSE RSub(sel.wings[n].iv_put25_30d, sel.wings[n].iv_call25_30d)

\* C26: when the wing selector returns, the assembled features have a row for
\* every date of the 30-day ATM output, the 91-day ATM output or the wing
\* output, a date with wing quotes and no ATM value keeps its wing columns,
\* and iv_ts_slope is iv_atm_91d - iv_atm_30d, missing when either is.
OuterJoinByDate ==
    (sel.fcalled /\ PickWings(sel.df, 30).exc = "none") =>
        LET wings == PickWings(sel.df, 30).rows
        IN  /\ sel.fexc = "none"
            /\ {sel.feats[n].date : n \in 1 .. Len(sel.feats)}
                  = {sel.iv30[i].date : i \in 1 .. Len(sel.iv30)}
                    \cup {sel.iv91[i].date : i \in 1 .. Len(sel.iv91)}
                    \cup {wings[i].date : i \in 1 .. Len(wings)}
            /\ \A i \in 1 .. Len(wings) :
                  \E n \in 1 .. Len(sel.feats) :
                      /\ sel.feats[n].date = wings[i].date
                      /\ sel.feats[n].iv_put25_30d = wings[i].iv_put25_30d
                      /\ sel.feats[n].iv_call25_30d = wings[i].iv_call25_30d
                      /\ sel.feats[n].iv_skew_30d = wings[i].iv_skew_30d
            /\ \A n \in 1 .. Len(sel.feats) :
                  sel.feats[n].iv_ts_slope
                      = IF IsNaN(sel.feats[n].iv_atm_91d) \/ IsNaN(sel.feats[n].iv_atm_30d)
                        THEN NaN
                        ELSE RSub(sel.feats[n].iv_atm_91d, sel.feats[n].iv_atm_30d)

\* C28: once reset has run, window <= t <= T; while the episode is not done
\* t <= T - 1, so that the step that follows reads R[t] inside the array, and
\* every step that ran read R at its index t <= T - 1; the observation
\* returned by reset or step is the window rows t - window .. t - 1, all of
\* them rows of the feature array.
IndexSafe ==
    ~ (self.t = NoneInt) =>
        /\ self.window <= self.t
        /\ self.t <= self.T
        /\ self.done = "False" => self.t <= self.T - 1
        /\ \A k \in 1 .. Len(trace) :
              /\ trace[k].t >= 0
              /\ trace[k].t <= self.T - 1
              /\ trace[k].ret = self.R[trace[k].t + 1]
        /\ (call.op \in {"reset", "step"} /\ out.exc = "none") =>
              /\ Len(out.obs) = self.window
              /\ \A k \in 1 .. Len(out.obs) :
                    /\ out.obs[k].idx = self.t - self.window + k - 1
                    /\ out.obs[k].idx \in 0 .. Len(self.X) - 1

\* a step read the last forward return and moved t to T
IndexSafeWitness ==
    /\ StepRan
    /\ out.exc = "none"
    /\ call.pre.t = self.T - 1
    /\ self.t = self.T
    /\ Len(out.obs) = self.window
    /\ out.obs[Len(out.obs)].idx = self.T - 1

\* C30: the traces of a rollout agree: rewards, rets, pnls and costs have
\* steps entries, nav and positions have steps + 1 entries and begin with 1 and
\* 0, and nav[i+1] = nav[i] * (1 + pnls[i]) for every i < steps.
RolloutTracesConsistent ==
    call.op = "rollout" =>
        /\ roll.steps >= 0
        /\ Len(roll.rewards) = roll.steps
        /\ Len(roll.rets) = roll.steps
        /\ Len(roll.pnls) = roll.steps
        /\ Len(roll.costs) = roll.steps
        /\ Len(roll.nav) = roll.steps + 1
        /\ Len(roll.positions) = roll.steps + 1
        /\ roll.nav[1] = F(1)
        /\ roll.positions[1] = F(0)
        /\ \A i \in 1 .. roll.steps :
              roll.nav[i + 1] = RMul(roll.nav[i], RAdd(F(1), roll.pnls[i]))

\* a rollout of two steps or more whose second step changed a nav other than 1
RolloutTracesConsistentWitness ==
    /\ call.op = "rollout"
    /\ roll.steps >= 2
    /\ ~ (roll.nav[2] = F(1))
    /\ ~ (roll.pnls[2] = F(0))
    /\ ~ (roll.nav[3] = roll.nav[2])

\* C27: gbm_paths called twice with the same arguments and the same seed
\* returns the same array, of n_steps + 1 rows and n_paths columns, and row 0
\* is s0 in every path.
GbmReproducible ==
    /\ gbm.calls >= 1 =>
          /\ Len(gbm.paths1) = gbm.n_steps + 1
          /\ \A r \in 1 .. Len(gbm.paths1) : Len(gbm.paths1[r]) = gbm.n_paths
          /\ \A p \in 1 .. gbm.n_paths : gbm.paths1[1][p] = gbm.s0
    /\ gbm.calls = 2 => gbm.paths2 = gbm.paths1

\* two calls were made, and the paths are random: two of them differ
GbmReproducibleWitness ==
    /\ gbm.calls = 2
    /\ gbm.n_paths >= 2
    /\ \E r \in 2 .. gbm.n_steps + 1 : ~ (gbm.paths1[r][1] = gbm.paths1[r][2])

====
